---- MODULE Spec2Model ----
(***************************************************************************)
(* Model of sfini's activity layer (src/sfini/_activity.py):               *)
(*   Activity, CallableActivity and ActivityRegistration.                  *)
(*                                                                         *)
(* Strings are tuples of one-character strings, so that concatenation,    *)
(* membership of '!' and str.split are computed and not assumed.           *)
(***************************************************************************)
EXTENDS Integers, Sequences, FiniteSets, TLC

VARIABLES
    name,        \* ActivityRegistration.name
    version,     \* ActivityRegistration.version
    activities,  \* ActivityRegistration.activities, in insertion order
    externals,   \* Activity objects returned by new_external_activity
    remote,      \* content of the SFN activity registry, in listing order
    pc,          \* position of the running operation
    op,          \* the operation last started
    calls,       \* session.sfn calls issued by the operation last started
    error,       \* exception raised by the operation last started
    versionArg,  \* deregister's `version` argument
    listed,      \* resp["activities"] collected so far by collect_paginated
    targets,     \* deregister's `acts` after _filter_versions
    todo,        \* the activities Activity.register is being called on
    idx,         \* loop position in todo / targets
    sig,         \* CallableActivity.sig
    task_input,  \* task input handed to the callable activity
    kwargs,      \* outcome of _get_input_from
    fn_calls     \* keyword arguments self.fn was called with

regVars == <<name, version, activities, externals>>
runVars == <<pc, op, calls, error, versionArg, listed, targets, todo, idx>>
bindVars == <<sig, task_input, kwargs, fn_calls>>
vars == <<name, version, activities, externals, remote, pc, op, calls, error,
          versionArg, listed, targets, todo, idx, sig, task_input, kwargs,
          fn_calls>>

-----------------------------------------------------------------------------
(* Bounds of the model *)

MaxActivities == 2
MaxExternals == 1
PageSize == 2
MaxParams == 2
MaxCalls == 2

-----------------------------------------------------------------------------
(* Strings *)

Min(a, b) == IF a < b THEN a ELSE b

Range(s) == {s[i] : i \in 1..Len(s)}

\* `sep in s`
Contains(s, sep) == \E i \in 1..Len(s) : s[i] = sep

\* s.find(sep) + 1, for a string that contains sep
Find(s, sep) == CHOOSE i \in 1..Len(s) : s[i] = sep /\ \A j \in 1..(i - 1) : s[j] # sep

\* str.split(sep, maxsplit): at most maxsplit splits, leftmost first, hence at
\* most maxsplit + 1 parts; the last part keeps any further separators.
RECURSIVE split(_, _, _)
split(s, sep, maxsplit) ==
    IF maxsplit = 0 \/ ~Contains(s, sep)
        THEN <<s>>
        ELSE LET i == Find(s, sep)
             IN  <<SubSeq(s, 1, i - 1)>> \o split(SubSeq(s, i + 1, Len(s)), sep, maxsplit - 1)

\* Python's None where a string is expected; no string of the model is a tuple
\* holding a several-character element.
None == <<"None">>

-----------------------------------------------------------------------------
(* Session: region, account and the remote identifier *)

Region == <<"r">>
AccountId == <<"0">>

\* Activity.arn: "arn:aws:states:%s:%s:activity:%s" % (region, account, name)
arn(activityName) ==
    <<"arn:aws:states:">> \o Region \o <<":">> \o AccountId \o <<":activity:">> \o activityName

\* an entry of list_activities' result
RemoteItem(activityName, date) ==
    [name |-> activityName, arn |-> arn(activityName), creationDate |-> date]

-----------------------------------------------------------------------------
(* ActivityRegistration: listing, filtering, deregistering *)

MaxSplit == 3

\* ActivityRegistration._get_name_and_version
\* Unpacking name_splits into three names raises ValueError when split
\* returned four parts.
_get_name_and_version(self_name, activity_item_name) ==
    LET name_splits == split(activity_item_name, "!", MaxSplit)
    IN  IF Len(name_splits) < 3
            THEN [tag |-> "None"]
        ELSE IF Len(name_splits) # 3
            THEN [tag |-> "ValueError"]
        ELSE IF name_splits[1] # self_name
            THEN [tag |-> "None"]
        ELSE [tag |-> "ok", version |-> name_splits[2], name |-> name_splits[3]]

\* ActivityRegistration._list_activities, applied to the collected response:
\* the tuples (version, name, arn, creationDate), or the ValueError raised
\* while parsing a name.
RECURSIVE _list_activities(_, _)
_list_activities(self_name, resp) ==
    IF resp = <<>>
        THEN [tag |-> "ok", acts |-> <<>>]
        ELSE LET act == Head(resp)
                 name_and_version == _get_name_and_version(self_name, act.name)
                 rest == _list_activities(self_name, Tail(resp))
             IN  IF name_and_version.tag = "ValueError"
                     THEN [tag |-> "ValueError"]
                 ELSE IF rest.tag = "ValueError"
                     THEN rest
                 ELSE IF name_and_version.tag = "None"
                     THEN rest
                 ELSE [tag |-> "ok",
                       acts |-> <<<<name_and_version.version, name_and_version.name,
                                    act.arn, act.creationDate>>>> \o rest.acts]

\* ActivityRegistration._filter_versions
_filter_versions(self_version, activity_items, v) ==
    SelectSeq(activity_items,
              LAMBDA act : \/ (v = None /\ act[1] # self_version)
                           \/ (v # None /\ act[1] = v))

\* session.sfn.delete_activity(activityArn=...) on the registry
delete_activity(registry, activityArn) ==
    SelectSeq(registry, LAMBDA item : item.arn # activityArn)

\* session.sfn.create_activity(name=...) on the registry: creating a name
\* that exists returns the existing activity
create_activity(registry, activityName) ==
    IF \E i \in 1..Len(registry) : registry[i].name = activityName
        THEN registry
        ELSE Append(registry, RemoteItem(activityName, Len(registry) + 1))


-----------------------------------------------------------------------------
(* Activity and ActivityRegistration: declaring and registering *)

DefaultHeartbeat == 20

\* _util.assert_valid_name: the registry's naming rules, rejecting disallowed
\* characters and excess length
InvalidNameCharacters == {" "}
MaxNameLength == 80
valid_name(activityName) ==
    /\ Len(activityName) <= MaxNameLength
    /\ \A i \in 1..Len(activityName) : activityName[i] \notin InvalidNameCharacters

\* "%s!%s!" % (self.name, self.version)
pref(self_name, self_version) == self_name \o <<"!">> \o self_version \o <<"!">>

\* keys of self.activities
Keys(acts) == {acts[i].suff : i \in 1..Len(acts)}

\* self.activities.values()
Values(acts) == [i \in 1..Len(acts) |-> acts[i].activity]

\* activity without the `suff in self.activities` test:
\* self.activities[suff] = activity replaces the entry stored under suff
activity_overwrite(acts, self_name, self_version, nameArg, heartbeat, fn) ==
    LET suff == IF nameArg = None THEN <<fn>> ELSE nameArg
        new == [suff |-> suff,
                activity |-> [name |-> pref(self_name, self_version) \o suff,
                              heartbeat |-> heartbeat,
                              fn |-> fn]]
    IN  IF Contains(self_name, "!")
            THEN [error |-> "ValueError_GroupName", activities |-> acts]
        ELSE IF suff \in Keys(acts)
            THEN [error |-> "None",
                  activities |-> [i \in 1..Len(acts) |->
                                      IF acts[i].suff = suff THEN new ELSE acts[i]]]
        ELSE [error |-> "None", activities |-> Append(acts, new)]

\* ActivityRegistration.activity(name, heartbeat)(fn): the exception raised
\* and self.activities afterwards. nameArg = None stands for name=None.
activity(acts, self_name, self_version, nameArg, heartbeat, fn) ==
    LET suff == IF nameArg = None THEN <<fn>> ELSE nameArg
    IN  IF Contains(self_name, "!")
            THEN [error |-> "ValueError_GroupName", activities |-> acts]
        ELSE IF suff \in Keys(acts)
            THEN [error |-> "ValueError_Duplicate", activities |-> acts]
        ELSE [error |-> "None",
              activities |-> Append(acts,
                  [suff |-> suff,
                   activity |-> [name |-> pref(self_name, self_version) \o suff,
                                 heartbeat |-> heartbeat,
                                 fn |-> fn]])]

\* ActivityRegistration.new_external_activity(name, heartbeat): the exception
\* raised, the Activity returned and self.activities afterwards
new_external_activity(acts, self_name, self_version, n, heartbeat) ==
    IF Contains(self_name, "!")
        THEN [error |-> "ValueError_GroupName", returned |-> {}, activities |-> acts]
        ELSE [error |-> "None",
              returned |-> {[name |-> pref(self_name, self_version) \o n,
                             heartbeat |-> heartbeat,
                             fn |-> "None"]},
              activities |-> acts]

-----------------------------------------------------------------------------
(* CallableActivity: binding task input to the callable's signature *)

\* inspect.Parameter.empty, the default of a parameter that declares none
empty == "<empty>"

\* the loop of CallableActivity._get_input_from over
\* self.sig.parameters.items(), from parameter i on: the first KeyError
\* raised, or kwargs
RECURSIVE bind_parameters(_, _, _, _)
bind_parameters(parameters, input, i, acc) ==
    IF i > Len(parameters)
        THEN [tag |-> "ok", kwargs |-> acc, param |-> ""]
        ELSE LET param == parameters[i]
                 val == IF param.name \in DOMAIN input THEN input[param.name]
                        ELSE param.default
             IN  IF val = empty
                     THEN [tag |-> "KeyError", kwargs |-> <<>>, param |-> param.name]
                     ELSE bind_parameters(parameters, input, i + 1,
                                          (param.name :> val) @@ acc)

\* _get_input_from with kwargs.update(task_input) run whether or not the
\* signature has a catch-all parameter
_get_input_from_always_update(parameters, input) ==
    LET bound == bind_parameters(parameters, input, 1, <<>>)
    IN  IF bound.tag = "KeyError"
            THEN bound
            ELSE [bound EXCEPT !.kwargs = input @@ bound.kwargs]

\* CallableActivity._get_input_from
_get_input_from(parameters, input) ==
    LET bound == bind_parameters(parameters, input, 1, <<>>)
    IN  IF bound.tag = "KeyError"
            THEN bound
        ELSE IF \E i \in 1..Len(parameters) : parameters[i].kind = "VAR_KEYWORD"
            THEN [bound EXCEPT !.kwargs = input @@ bound.kwargs]
        ELSE bound

-----------------------------------------------------------------------------
(* Inputs *)

GroupNames == {<<"b">>, <<"b", "!">>}
Versions == {<<"1">>, <<"1", "!", "2">>}
VersionArgs == {None, <<"1">>, <<"2">>}
Fns == {"c", "d"}
NameArgs == {None, <<"c">>, <<"c", "!", "d">>, <<"c", " ">>}
Heartbeats == {DefaultHeartbeat}

\* names other deployments may have left in the registry
RemotePool ==
    << <<"b", "!", "1", "!", "c">>,
       <<"b", "!", "2", "!", "c">>,
       <<"o", "!", "2", "!", "c">>,
       <<"b", "c">>,
       <<"b", "!", "c">>,
       <<"b", "!", "1", "!", "c", "!", "d">> >>

RECURSIVE Pick(_, _)
Pick(pool, S) ==
    IF pool = <<>> THEN <<>>
    ELSE (IF Len(pool) \in S THEN Pick(SubSeq(pool, 1, Len(pool) - 1), S) \o <<pool[Len(pool)]>>
          ELSE Pick(SubSeq(pool, 1, Len(pool) - 1), S))

Registry(S) ==
    LET names == Pick(RemotePool, S)
    IN  [i \in 1..Len(names) |-> RemoteItem(names[i], i)]

\* signatures inspect can return: parameter names are distinct, a
\* positional parameter without default does not follow one with a default,
\* keyword-only parameters follow the positional ones and **kwargs is last
ParamNames == {"a", "b", "kw"}
InputKeys == {"a", "b", "kw", "extra"}
InputValues == {"5", "9"}
Defaults == {empty, "1"}
Parameters ==
    [name : ParamNames, kind : {"POSITIONAL_OR_KEYWORD", "KEYWORD_ONLY"}, default : Defaults]
        \cup [name : ParamNames, kind : {"VAR_KEYWORD"}, default : {empty}]

KindRank(kind) ==
    CASE kind = "POSITIONAL_OR_KEYWORD" -> 1
      [] kind = "KEYWORD_ONLY" -> 2
      [] kind = "VAR_KEYWORD" -> 3

IsSignature(ps) ==
    /\ \A i, j \in 1..Len(ps) : i < j =>
          /\ ps[i].name # ps[j].name
          /\ KindRank(ps[i].kind) <= KindRank(ps[j].kind)
          /\ ps[i].kind # "VAR_KEYWORD"
          /\ (ps[i].kind = "POSITIONAL_OR_KEYWORD" /\ ps[j].kind = "POSITIONAL_OR_KEYWORD"
                  /\ ps[i].default # empty) => ps[j].default # empty

Signatures ==
    {ps \in UNION {[1..n -> Parameters] : n \in 0..MaxParams} : IsSignature(ps)}

TaskInputs == UNION {[K -> InputValues] : K \in SUBSET InputKeys}

-----------------------------------------------------------------------------
(* Operations *)

Start(kind, arg) ==
    /\ pc = "idle"
    /\ op' = [kind |-> kind, arg |-> arg]
    /\ calls' = <<>>

\* @activities.activity(nameArg, heartbeat) applied to fn
Declare ==
    \E nameArg \in NameArgs, heartbeat \in Heartbeats, fn \in Fns :
        LET r == activity(activities, name, version, nameArg, heartbeat, fn)
        IN  /\ Start("activity", IF nameArg = None THEN <<fn>> ELSE nameArg)
            /\ Len(r.activities) <= MaxActivities
            /\ activities' = r.activities
            /\ error' = r.error
            /\ UNCHANGED <<name, version, externals, remote, pc, versionArg,
                           listed, targets, todo, idx>>
            /\ UNCHANGED bindVars

\* activities.new_external_activity(n, heartbeat)
DeclareExternal ==
    \E n \in NameArgs \ {None}, heartbeat \in Heartbeats :
        LET r == new_external_activity(activities, name, version, n, heartbeat)
        IN  /\ Start("new_external_activity", n)
            /\ Cardinality(externals \cup r.returned) <= MaxExternals
            /\ externals' = externals \cup r.returned
            /\ activities' = r.activities
            /\ error' = r.error
            /\ UNCHANGED <<name, version, remote, pc, versionArg, listed,
                           targets, todo, idx>>
            /\ UNCHANGED bindVars

\* activities.register(): enter the loop over self.activities.values()
RegisterAll ==
    /\ Start("register_all", <<>>)
    /\ todo' = Values(activities)
    /\ idx' = 1
    /\ error' = "None"
    /\ pc' = IF activities = <<>> THEN "idle" ELSE "register"
    /\ UNCHANGED <<name, version, activities, externals, remote, versionArg,
                   listed, targets>>
    /\ UNCHANGED bindVars

\* a.register() called directly on an Activity object the caller holds
RegisterOne ==
    \E a \in externals :
        /\ Start("register", a.name)
        /\ todo' = <<a>>
        /\ idx' = 1
        /\ error' = "None"
        /\ pc' = "register"
        /\ UNCHANGED <<name, version, activities, externals, remote,
                       versionArg, listed, targets>>
        /\ UNCHANGED bindVars

\* Activity.register: assert_valid_name raises
RegisterInvalidName ==
    /\ pc = "register"
    /\ ~valid_name(todo[idx].name)
    /\ error' = "ValueError_InvalidName"
    /\ pc' = "idle"
    /\ UNCHANGED <<name, version, activities, externals, remote, op, calls,
                   versionArg, listed, targets, todo, idx>>
    /\ UNCHANGED bindVars

\* Activity.register: create_activity returns the expected ARN; the loop of
\* ActivityRegistration.register goes on
RegisterCreated ==
    /\ pc = "register"
    /\ valid_name(todo[idx].name)
    /\ calls' = Append(calls, <<"create_activity", todo[idx].name>>)
    /\ remote' = create_activity(remote, todo[idx].name)
    /\ idx' = idx + 1
    /\ pc' = IF idx = Len(todo) THEN "idle" ELSE "register"
    /\ UNCHANGED <<name, version, activities, externals, op, error,
                   versionArg, listed, targets, todo>>
    /\ UNCHANGED bindVars

\* RegisterCreateFailed with the exception caught inside the loop of
\* ActivityRegistration.register
RegisterCreateFailed_goes_on ==
    /\ pc = "register"
    /\ valid_name(todo[idx].name)
    /\ calls' = Append(calls, <<"create_activity", todo[idx].name>>)
    /\ error' = "ClientError"
    /\ idx' = idx + 1
    /\ pc' = IF idx = Len(todo) THEN "idle" ELSE "register"
    /\ UNCHANGED <<name, version, activities, externals, remote, op,
                   versionArg, listed, targets, todo>>
    /\ UNCHANGED bindVars

\* Activity.register: create_activity raises; the exception leaves the loop
RegisterCreateFailed ==
    /\ pc = "register"
    /\ valid_name(todo[idx].name)
    /\ calls' = Append(calls, <<"create_activity", todo[idx].name>>)
    /\ error' = "ClientError"
    /\ pc' = "idle"
    /\ UNCHANGED <<name, version, activities, externals, remote, op,
                   versionArg, listed, targets, todo, idx>>
    /\ UNCHANGED bindVars

\* Activity.register: the activity is created under another ARN than
\* self.arn; the assertion fails
RegisterArnMismatch ==
    /\ pc = "register"
    /\ valid_name(todo[idx].name)
    /\ calls' = Append(calls, <<"create_activity", todo[idx].name>>)
    /\ remote' = create_activity(remote, todo[idx].name)
    /\ error' = "AssertionError"
    /\ pc' = "idle"
    /\ UNCHANGED <<name, version, activities, externals, op, versionArg,
                   listed, targets, todo, idx>>
    /\ UNCHANGED bindVars

\* activities.deregister(v): enter _list_activities
Deregister ==
    \E v \in VersionArgs :
        /\ Start("deregister", v)
        /\ versionArg' = v
        /\ listed' = <<>>
        /\ targets' = <<>>
        /\ idx' = 1
        /\ error' = "None"
        /\ pc' = "list"
        /\ UNCHANGED <<name, version, activities, externals, remote, todo>>
        /\ UNCHANGED bindVars

\* _util.collect_paginated: one list_activities call, following the
\* continuation token until the registry has no more pages
ListPage ==
    /\ pc = "list"
    /\ LET from == Len(listed) + 1
           to == Min(Len(listed) + PageSize, Len(remote))
       IN  /\ calls' = Append(calls, <<"list_activities", <<>>>>)
           /\ listed' = listed \o SubSeq(remote, from, to)
           /\ pc' = IF to = Len(remote) THEN "filter" ELSE "list"
    /\ UNCHANGED <<name, version, activities, externals, remote, op, error,
                   versionArg, targets, todo, idx>>
    /\ UNCHANGED bindVars

\* a list_activities call raises
ListFailed ==
    /\ pc = "list"
    /\ calls' = Append(calls, <<"list_activities", <<>>>>)
    /\ error' = "ClientError"
    /\ pc' = "idle"
    /\ UNCHANGED <<name, version, activities, externals, remote, op,
                   versionArg, listed, targets, todo, idx>>
    /\ UNCHANGED bindVars

\* the rest of _list_activities, then _filter_versions, then entering
\* _deregister_activities
Filter ==
    /\ pc = "filter"
    /\ LET r == _list_activities(name, listed)
       IN  IF r.tag = "ValueError"
               THEN /\ error' = "ValueError_Unpack"
                    /\ pc' = "idle"
                    /\ UNCHANGED targets
               ELSE /\ targets' = _filter_versions(version, r.acts, versionArg)
                    /\ pc' = IF targets' = <<>> THEN "idle" ELSE "delete"
                    /\ UNCHANGED error
    /\ UNCHANGED <<name, version, activities, externals, remote, op, calls,
                   versionArg, listed, todo, idx>>
    /\ UNCHANGED bindVars

\* _deregister_activities: delete_activity succeeds
Deleted ==
    /\ pc = "delete"
    /\ calls' = Append(calls, <<"delete_activity", targets[idx][3]>>)
    /\ remote' = delete_activity(remote, targets[idx][3])
    /\ idx' = idx + 1
    /\ pc' = IF idx = Len(targets) THEN "idle" ELSE "delete"
    /\ UNCHANGED <<name, version, activities, externals, op, error,
                   versionArg, listed, targets, todo>>
    /\ UNCHANGED bindVars

\* DeleteFailed with the exception caught inside the loop of
\* _deregister_activities
DeleteFailed_goes_on ==
    /\ pc = "delete"
    /\ calls' = Append(calls, <<"delete_activity", targets[idx][3]>>)
    /\ error' = "ClientError"
    /\ idx' = idx + 1
    /\ pc' = IF idx = Len(targets) THEN "idle" ELSE "delete"
    /\ UNCHANGED <<name, version, activities, externals, remote, op,
                   versionArg, listed, targets, todo>>
    /\ UNCHANGED bindVars

\* _deregister_activities: delete_activity raises; the exception leaves the loop
DeleteFailed ==
    /\ pc = "delete"
    /\ calls' = Append(calls, <<"delete_activity", targets[idx][3]>>)
    /\ error' = "ClientError"
    /\ pc' = "idle"
    /\ UNCHANGED <<name, version, activities, externals, remote, op,
                   versionArg, listed, targets, todo, idx>>
    /\ UNCHANGED bindVars

\* activity._get_input_from(task_input)
Bind ==
    /\ kwargs' = _get_input_from(sig, task_input)
    /\ UNCHANGED <<sig, task_input, fn_calls>>
    /\ UNCHANGED <<regVars, remote, runVars>>

\* activity.call_with(task_input): self.fn(**kwargs) runs when
\* _get_input_from returned
CallWith ==
    /\ Len(fn_calls) < MaxCalls
    /\ LET r == _get_input_from(sig, task_input)
       IN  /\ kwargs' = r
           /\ fn_calls' = IF r.tag = "ok" THEN Append(fn_calls, r.kwargs) ELSE fn_calls
    /\ UNCHANGED <<sig, task_input>>
    /\ UNCHANGED <<regVars, remote, runVars>>

-----------------------------------------------------------------------------
(* Specifications *)

InitRun ==
    /\ pc = "idle"
    /\ op = [kind |-> "none", arg |-> <<>>]
    /\ calls = <<>>
    /\ error = "None"
    /\ versionArg = None
    /\ listed = <<>>
    /\ targets = <<>>
    /\ todo = <<>>
    /\ idx = 1

InitNoBind ==
    /\ sig = <<>>
    /\ task_input = <<>>
    /\ kwargs = [tag |-> "none", kwargs |-> <<>>, param |-> ""]
    /\ fn_calls = <<>>

\* ActivityRegistration(name, version) against an empty registry
InitRegister ==
    /\ name \in GroupNames
    /\ version \in Versions
    /\ activities = <<>>
    /\ externals = {}
    /\ remote = <<>>
    /\ InitRun
    /\ InitNoBind

NextRegister ==
    \/ Declare
    \/ DeclareExternal
    \/ RegisterAll
    \/ RegisterOne
    \/ RegisterInvalidName
    \/ RegisterCreated
    \/ RegisterCreateFailed
    \/ RegisterArnMismatch

SpecRegister == InitRegister /\ [][NextRegister]_vars

\* ActivityRegistration(name, version) against a registry other deployments
\* have written to
InitDeregister ==
    /\ name \in GroupNames
    /\ version \in Versions
    /\ activities = <<>>
    /\ externals = {}
    /\ \E S \in SUBSET (1..Len(RemotePool)) : remote = Registry(S)
    /\ InitRun
    /\ InitNoBind

NextDeregister ==
    \/ Deregister
    \/ ListPage
    \/ ListFailed
    \/ Filter
    \/ Deleted
    \/ DeleteFailed

SpecDeregister == InitDeregister /\ [][NextDeregister]_vars


\* CallableActivity.from_callable(fn, ...) for a callable of any signature,
\* handed any task input
InitBind ==
    /\ sig \in Signatures
    /\ task_input \in TaskInputs
    /\ kwargs = [tag |-> "none", kwargs |-> <<>>, param |-> ""]
    /\ fn_calls = <<>>
    /\ name = <<"b">>
    /\ version = <<"1">>
    /\ activities = <<>>
    /\ externals = {}
    /\ remote = <<>>
    /\ InitRun

NextBind ==
    \/ Bind
    \/ CallWith

SpecBind == InitBind /\ [][NextBind]_vars

-----------------------------------------------------------------------------
(* Properties *)

IsCall(c, kind) == c[1] = kind
ListCalls == SelectSeq(calls, LAMBDA c : IsCall(c, "list_activities"))
DeleteCalls == SelectSeq(calls, LAMBDA c : IsCall(c, "delete_activity"))
CreateCalls == SelectSeq(calls, LAMBDA c : IsCall(c, "create_activity"))
Arns(items) == {items[i].arn : i \in 1..Len(items)}

\* the positions of '!' in a name
DelimiterPositions(n) == {i \in 1..Len(n) : n[i] = "!"}

\* n reads group!v!short with exactly two delimiters
ReadsAs(n, group, v, short) ==
    \E i, j \in DelimiterPositions(n) :
        /\ i < j
        /\ DelimiterPositions(n) = {i, j}
        /\ SubSeq(n, 1, i - 1) = group
        /\ SubSeq(n, i + 1, j - 1) = v
        /\ SubSeq(n, j + 1, Len(n)) = short

\* n carries this group and a version other than v
IsStale(n, group, v) ==
    \E i, j \in DelimiterPositions(n) :
        /\ i < j
        /\ DelimiterPositions(n) = {i, j}
        /\ SubSeq(n, 1, i - 1) = group
        /\ SubSeq(n, i + 1, j - 1) # v

HasVarKeyword(parameters) ==
    \E i \in 1..Len(parameters) : parameters[i].kind = "VAR_KEYWORD"

\* C1: deregister() without a version, when no remote call fails, deletes
\* exactly the listed activities named group!v!short with v other than the
\* registration's version: none of its own version, none of another group.
C1_DeletesExactlyStale ==
    (op.kind = "deregister" /\ versionArg = None /\ pc = "idle" /\ error # "ClientError")
        => {c[2] : c \in Range(DeleteCalls)}
               = {listed[i].arn : i \in {k \in 1..Len(listed) : IsStale(listed[k].name, name, version)}}

\* C2: an activity declared with new_external_activity is in the group's
\* collection, and a register() of the group that returns has issued a create
\* call for its name.
C2_ExternalIsRegistered ==
    (op.kind = "register_all" /\ pc = "idle" /\ error = "None")
        => \A e \in externals :
               /\ e \in Range(Values(activities))
               /\ <<"create_activity", e.name>> \in Range(calls)

\* C3: for a signature of a named parameter and a catch-all keyword
\* parameter, binding succeeds for every task input that holds the named
\* parameter, and the bound arguments hold every key of the task input with
\* the task input's value.
C3_CatchAllBinds ==
    (/\ kwargs.tag # "none"
     /\ Len(sig) = 2
     /\ sig[1].kind # "VAR_KEYWORD"
     /\ sig[2].kind = "VAR_KEYWORD"
     /\ sig[1].name \in DOMAIN task_input)
        => /\ kwargs.tag = "ok"
           /\ \A k \in DOMAIN task_input :
                  k \in DOMAIN kwargs.kwargs /\ kwargs.kwargs[k] = task_input[k]

\* C4: without a catch-all parameter, binding yields exactly the declared
\* parameter names, each with the task input's value when present and its
\* default otherwise; when a parameter is absent and has no default it fails
\* naming the first such parameter, and the callable is not called.
C4_BindDeclaredParameters ==
    (kwargs.tag # "none" /\ ~HasVarKeyword(sig))
        => LET missing == {i \in 1..Len(sig) :
                              sig[i].name \notin DOMAIN task_input /\ sig[i].default = empty}
           IN  IF missing = {}
                   THEN /\ kwargs.tag = "ok"
                        /\ DOMAIN kwargs.kwargs = {sig[i].name : i \in 1..Len(sig)}
                        /\ \A i \in 1..Len(sig) :
                               kwargs.kwargs[sig[i].name] =
                                   IF sig[i].name \in DOMAIN task_input
                                       THEN task_input[sig[i].name]
                                       ELSE sig[i].default
                        /\ \A c \in 1..Len(fn_calls) : fn_calls[c] = kwargs.kwargs
                   ELSE /\ kwargs.tag = "KeyError"
                        /\ \E i \in missing :
                               /\ kwargs.param = sig[i].name
                               /\ \A j \in missing : i <= j
                        /\ fn_calls = <<>>

\* required a, optional b: the input holds a only, b takes its default and
\* the callable has been called
C4_Witness ==
    /\ kwargs.tag = "ok"
    /\ ~HasVarKeyword(sig)
    /\ Len(sig) = 2
    /\ sig[1].default = empty
    /\ sig[2].default # empty
    /\ DOMAIN task_input = {sig[1].name}
    /\ fn_calls # <<>>

\* C5: no two stored activities share a short-name; declaring a short-name
\* that is present fails as a duplicate, issues no remote call and leaves
\* self.activities as it was.
C5_DeclareUnique ==
    /\ [](\A i, j \in 1..Len(activities) :
              i # j => activities[i].suff # activities[j].suff)
    /\ [][(op'.kind = "activity" /\ op'.arg \in Keys(activities))
              => /\ error' = "ValueError_Duplicate"
                 /\ activities' = activities
                 /\ calls' = <<>>
                 /\ remote' = remote]_vars

\* the second declaration of a short-name has failed and one activity is stored
C5_Witness ==
    /\ op.kind = "activity"
    /\ error = "ValueError_Duplicate"
    /\ Len(activities) = 1

\* C6: the name minted for a declared activity is read back by
\* _get_name_and_version as (version, short-name) of this group.
C6_NameRoundTrips ==
    \A i \in 1..Len(activities) :
        LET parsed == _get_name_and_version(name, activities[i].activity.name)
        IN  /\ parsed.tag = "ok"
            /\ parsed.version = version
            /\ parsed.name = activities[i].suff

\* C7: listing the remote activities raises for no registry content; a name
\* that does not read as three parts of this group yields no tuple.
C7_ListingNeverFails ==
    op.kind = "deregister"
        => /\ error # "ValueError_Unpack"
           /\ \A t \in 1..Len(targets) :
                  \E i \in 1..Len(listed) :
                      /\ listed[i].arn = targets[t][3]
                      /\ ReadsAs(listed[i].name, name, targets[t][1], targets[t][2])

\* C8: an operation that fails with a local validation error has issued no
\* remote call.
C8_ValidationBeforeRemoteCalls ==
    error \in {"ValueError_GroupName", "ValueError_Duplicate", "ValueError_InvalidName"}
        => calls = <<>>

\* C9: register() of the group issues its create calls in iteration order and
\* stops at the first failure: no create call for an activity after the
\* failing one, and one create call per activity when none fails.
C9_RegisterAbortsOnFirstFailure ==
    op.kind = "register_all"
        => /\ todo = Values(activities)
           /\ calls = CreateCalls
           /\ Len(calls) <= Len(todo)
           /\ \A i \in 1..Len(calls) : calls[i] = <<"create_activity", todo[i].name>>
           /\ (pc = "idle" /\ error = "None") => Len(calls) = Len(todo)
           /\ error # "None"
                  => /\ pc = "idle"
                     /\ Len(calls) = IF error = "ValueError_InvalidName" THEN idx - 1 ELSE idx

\* a registration failed with activities left: none of them was created
C9_Witness ==
    /\ op.kind = "register_all"
    /\ pc = "idle"
    /\ error = "ClientError"
    /\ idx < Len(todo)
    /\ Len(calls) = idx

\* C10: deregister issues no delete call before the listing is complete and
\* filtered, none when listing or parsing fails; the targets come from that
\* one listing, and a failing delete call ends the operation with the
\* remaining targets undeleted.
C10_ListThenDelete ==
    op.kind = "deregister"
        => LET deleted == IF error = "ClientError" THEN Len(DeleteCalls) - 1
                          ELSE Len(DeleteCalls)
           IN  /\ calls = ListCalls \o DeleteCalls
               /\ ListCalls # <<>> \/ pc = "list"
               /\ Len(DeleteCalls) <= Len(targets)
               /\ \A i \in 1..Len(DeleteCalls) :
                      DeleteCalls[i] = <<"delete_activity", targets[i][3]>>
               /\ (pc \in {"filter", "delete"} \/ DeleteCalls # <<>>)
                      => /\ remote = SelectSeq(listed,
                                LAMBDA item : \A i \in 1..deleted : targets[i][3] # item.arn)
                         /\ {targets[i][3] : i \in 1..Len(targets)} \subseteq Arns(listed)
               /\ error = "ValueError_Unpack" => DeleteCalls = <<>>
               /\ pc \in {"list", "filter"} => DeleteCalls = <<>>
               /\ (error = "ClientError" /\ DeleteCalls # <<>>)
                      => /\ pc = "idle"
                         /\ Len(DeleteCalls) = idx
                         /\ \A i \in idx..Len(targets) : targets[i][3] \in Arns(remote)

\* a delete call failed after a listing of several pages, with targets left
C10_Witness ==
    /\ op.kind = "deregister"
    /\ error = "ClientError"
    /\ DeleteCalls # <<>>
    /\ idx < Len(targets)
    /\ Len(ListCalls) > 1

====
